---- MODULE Spec2Model ----
(***************************************************************************)
(* A model of viewer/viewport.go: the scrollable viewport ViewportModel,   *)
(* its state queries, SetContent, the navigation methods, the Sync        *)
(* command and View.  Strings are sequences of characters, m.lines is a   *)
(* sequence of strings, and every method is an operator from the receiver *)
(* m to a record [m, ret, ok]: the receiver after the call, the returned  *)
(* slice, and ok = FALSE when the call ends in a Go run-time panic (a     *)
(* slice expression out of range, a negative strings.Repeat count).       *)
(***************************************************************************)
EXTENDS Integers, Sequences, FiniteSets

\* ---------------------------------------------------------------- bounds
MaxLen == 4        \* longest text handed to SetContent, in characters
MaxHeight == 3     \* largest Height a resize sets
MaxNeg == 1        \* most negative Height and n are -MaxNeg
MaxN == 3          \* largest n handed to LineDown and LineUp
MaxWidth == 1      \* largest Width a resize sets
MaxYPosition == 1  \* largest YPosition the host sets
MaxOffset == 4     \* calls that would take YOffset beyond +-MaxOffset are left out

\* ------------------------------------------------------------ characters
\* "\r" and "\n".  A "\r" that no "\n" follows is an ordinary character to
\* SetContent, so the texts over these two hold every case of its conversion.
CR == "CR"
LF == "LF"
Chars == {CR, LF}

Texts == UNION {[1..k -> Chars] : k \in 0..MaxLen}

\* ------------------------------------------------------------- constants
spacebar == " "
mouseWheelDelta == 3

\* ------------------------------------------------------------------- ETC
min(a, b) == IF a < b THEN a ELSE b

max(a, b) == IF a > b THEN a ELSE b

clamp(v, low, high) == min(high, max(low, v))

\* Go's integer division h/2 truncates toward zero.
Half(h) == IF h >= 0 THEN h \div 2 ELSE -((-h) \div 2)

\* ------------------------------------------------------- string helpers
RECURSIVE Replace(_)
\* strings.Replace(s, "\r\n", "\n", -1)
Replace(s) ==
    IF Len(s) = 0 THEN <<>>
    ELSE IF Len(s) >= 2 /\ s[1] = CR /\ s[2] = LF
         THEN <<LF>> \o Replace(SubSeq(s, 3, Len(s)))
         ELSE <<s[1]>> \o Replace(Tail(s))

RECURSIVE SplitEmptyNil(_)
\* Split that gives no element at all for the empty text.
SplitEmptyNil(s) ==
    IF Len(s) = 0 THEN <<>>
    ELSE IF \A i \in 1..Len(s) : s[i] # LF THEN <<s>>
    ELSE LET i == CHOOSE j \in 1..Len(s) :
                      s[j] = LF /\ \A k \in 1..(j - 1) : s[k] # LF
         IN <<SubSeq(s, 1, i - 1)>> \o
            (IF i = Len(s) THEN <<<<>>>> ELSE SplitEmptyNil(SubSeq(s, i + 1, Len(s))))

RECURSIVE Split(_)
\* strings.Split(s, "\n"): the text between separators, so "" gives [""]
Split(s) ==
    IF \A i \in 1..Len(s) : s[i] # LF THEN <<s>>
    ELSE LET i == CHOOSE j \in 1..Len(s) :
                      s[j] = LF /\ \A k \in 1..(j - 1) : s[k] # LF
         IN <<SubSeq(s, 1, i - 1)>> \o Split(SubSeq(s, i + 1, Len(s)))

RECURSIVE Join(_)
\* strings.Join(lines, "\n")
Join(ls) ==
    IF Len(ls) = 0 THEN <<>>
    ELSE IF Len(ls) = 1 THEN ls[1]
    ELSE ls[1] \o <<LF>> \o Join(Tail(ls))

\* strings.Repeat("\n", count) for count >= 0 (a negative count panics)
Repeat(count) == [i \in 1..count |-> LF]

\* The slice expression lines[top:bottom]; Go panics unless
\* 0 <= top <= bottom <= cap(lines), and cap = len for a strings.Split result.
SliceOk(ls, top, bottom) == 0 <= top /\ top <= bottom /\ bottom <= Len(ls)

Slice(ls, top, bottom) ==
    IF SliceOk(ls, top, bottom) THEN SubSeq(ls, top + 1, bottom) ELSE <<>>

\* ------------------------------------------------------- the receiver m
\* The zero value of ViewportModel.
New ==
    [Width |-> 0, Height |-> 0, YOffset |-> 0, YPosition |-> 0,
     HighPerformanceRendering |-> FALSE, lines |-> <<>>]

\* What a method call yields.
Result(m, ret, ok) == [m |-> m, ret |-> ret, ok |-> ok]

\* ---------------------------------------------------------- state queries
\* AtTop with the boundary off by one.
AtTopOffByOne(m) == m.YOffset <= 1

AtTop(m) == m.YOffset <= 0

AtBottom(m) == m.YOffset >= Len(m.lines) - 1 - m.Height

PastBottom(m) == m.YOffset > Len(m.lines) - 1 - m.Height

\* A float64 result: NaN, or the exact fraction num/den (den > 0).
NaN == [nan |-> TRUE, num |-> 0, den |-> 1]

Frac(n, d) == [nan |-> FALSE, num |-> n, den |-> d]

\* y / d in float64, then math.Max(0.0, math.Min(1.0, v)).  A zero divisor
\* does not panic: 0/0 is NaN (which Min and Max pass on), y/0 is +Inf or -Inf.
Clamp01(y, d) ==
    IF d = 0
    THEN IF y = 0 THEN NaN ELSE IF y > 0 THEN Frac(1, 1) ELSE Frac(0, 1)
    ELSE LET n == IF d > 0 THEN y ELSE -y
             e == IF d > 0 THEN d ELSE -d
         IN IF n <= 0 THEN Frac(0, 1)
            ELSE IF n >= e THEN Frac(1, 1)
            ELSE Frac(n, e)

ScrollPercent(m) ==
    IF m.Height >= Len(m.lines) THEN Frac(1, 1)
    ELSE Clamp01(m.YOffset, (Len(m.lines) - 1) - m.Height)

\* visibleLines that starts at YPosition where it should start at YOffset.
visibleLinesAtPosition(m) ==
    IF Len(m.lines) > 0
    THEN LET top == max(0, m.YPosition)
             bottom == clamp(m.YOffset + m.Height, top, Len(m.lines))
         IN Result(m, Slice(m.lines, top, bottom), SliceOk(m.lines, top, bottom))
    ELSE Result(m, <<>>, TRUE)

\* visibleLines with the upper limit len(lines)-1 that the navigation methods use.
visibleLinesShort(m) ==
    IF Len(m.lines) > 0
    THEN LET top == max(0, m.YOffset)
             bottom == clamp(m.YOffset + m.Height, top, Len(m.lines) - 1)
         IN Result(m, Slice(m.lines, top, bottom), SliceOk(m.lines, top, bottom))
    ELSE Result(m, <<>>, TRUE)

visibleLines(m) ==
    IF Len(m.lines) > 0
    THEN LET top == max(0, m.YOffset)
             bottom == clamp(m.YOffset + m.Height, top, Len(m.lines))
         IN Result(m, Slice(m.lines, top, bottom), SliceOk(m.lines, top, bottom))
    ELSE Result(m, <<>>, TRUE)

\* ------------------------------------------------------------ navigation
\* ViewDown without the early return at the bottom.
ViewDownNoGuard(m) ==
    visibleLines([m EXCEPT !.YOffset =
        min(m.YOffset + m.Height, Len(m.lines) - 1 - m.Height)])

\* ViewDown without the fallback: the target offset is taken as it is.
ViewDownNoFallback(m) ==
    IF AtBottom(m) THEN Result(m, <<>>, TRUE)
    ELSE visibleLines([m EXCEPT !.YOffset = m.YOffset + m.Height])

ViewDown(m) ==
    IF AtBottom(m) THEN Result(m, <<>>, TRUE)
    ELSE visibleLines([m EXCEPT !.YOffset =
             min(m.YOffset + m.Height, Len(m.lines) - 1 - m.Height)])

\* ViewUp without the fallback: the target offset is taken as it is.
ViewUpNoFallback(m) ==
    IF AtTop(m) THEN Result(m, <<>>, TRUE)
    ELSE visibleLines([m EXCEPT !.YOffset = m.YOffset - m.Height])

ViewUp(m) ==
    IF AtTop(m) THEN Result(m, <<>>, TRUE)
    ELSE visibleLines([m EXCEPT !.YOffset = max(m.YOffset - m.Height, 0)])

HalfViewDown(m) ==
    IF AtBottom(m) THEN Result(m, <<>>, TRUE)
    ELSE LET m1 == [m EXCEPT !.YOffset =
                       min(m.YOffset + Half(m.Height), Len(m.lines) - 1 - m.Height)]
             top == max(m1.YOffset + Half(m1.Height), 0)
             bottom == clamp(m1.YOffset + m1.Height, top, Len(m1.lines) - 1)
         IN IF Len(m1.lines) > 0
            THEN Result(m1, Slice(m1.lines, top, bottom), SliceOk(m1.lines, top, bottom))
            ELSE Result(m1, <<>>, TRUE)

HalfViewUp(m) ==
    IF AtTop(m) THEN Result(m, <<>>, TRUE)
    ELSE LET m1 == [m EXCEPT !.YOffset = max(m.YOffset - Half(m.Height), 0)]
             top == max(m1.YOffset, 0)
             bottom == clamp(m1.YOffset + Half(m1.Height), top, Len(m1.lines) - 1)
         IN IF Len(m1.lines) > 0
            THEN Result(m1, Slice(m1.lines, top, bottom), SliceOk(m1.lines, top, bottom))
            ELSE Result(m1, <<>>, TRUE)

\* LineDown that clamps only the final offset, not n.
LineDownNoCap(m, n) ==
    IF AtBottom(m) \/ n = 0 THEN Result(m, <<>>, TRUE)
    ELSE LET m1 == [m EXCEPT !.YOffset =
                       min(m.YOffset + n, Len(m.lines) - 1 - m.Height)]
             top == max(m1.YOffset + m1.Height - n, 0)
             bottom == clamp(m1.YOffset + m1.Height, top, Len(m1.lines) - 1)
         IN IF Len(m1.lines) > 0
            THEN Result(m1, Slice(m1.lines, top, bottom), SliceOk(m1.lines, top, bottom))
            ELSE Result(m1, <<>>, TRUE)

LineDown(m, n0) ==
    IF AtBottom(m) \/ n0 = 0 THEN Result(m, <<>>, TRUE)
    ELSE LET maxDelta == (Len(m.lines) - 1) - (m.YOffset + m.Height)
             n == min(n0, maxDelta)
             m1 == [m EXCEPT !.YOffset =
                       min(m.YOffset + n, Len(m.lines) - 1 - m.Height)]
             top == max(m1.YOffset + m1.Height - n, 0)
             bottom == clamp(m1.YOffset + m1.Height, top, Len(m1.lines) - 1)
         IN IF Len(m1.lines) > 0
            THEN Result(m1, Slice(m1.lines, top, bottom), SliceOk(m1.lines, top, bottom))
            ELSE Result(m1, <<>>, TRUE)

LineUp(m, n0) ==
    IF AtTop(m) \/ n0 = 0 THEN Result(m, <<>>, TRUE)
    ELSE LET n == min(n0, m.YOffset)
             m1 == [m EXCEPT !.YOffset = max(m.YOffset - n, 0)]
             top == max(0, m1.YOffset)
             bottom == clamp(m1.YOffset + n, top, Len(m1.lines) - 1)
         IN IF Len(m1.lines) > 0
            THEN Result(m1, Slice(m1.lines, top, bottom), SliceOk(m1.lines, top, bottom))
            ELSE Result(m1, <<>>, TRUE)

GotoTop(m) ==
    IF AtTop(m) THEN Result(m, <<>>, TRUE)
    ELSE LET m1 == [m EXCEPT !.YOffset = 0]
             top == m1.YOffset
             bottom == clamp(m1.YOffset + m1.Height, top, Len(m1.lines) - 1)
         IN IF Len(m1.lines) > 0
            THEN Result(m1, Slice(m1.lines, top, bottom), SliceOk(m1.lines, top, bottom))
            ELSE Result(m1, <<>>, TRUE)

\* GotoBottom without the floor at 0.
GotoBottomNoFloor(m) ==
    LET m1 == [m EXCEPT !.YOffset = Len(m.lines) - 1 - m.Height]
        top == m1.YOffset
        bottom == max(Len(m1.lines) - 1, 0)
    IN IF Len(m1.lines) > 0
       THEN Result(m1, Slice(m1.lines, top, bottom), SliceOk(m1.lines, top, bottom))
       ELSE Result(m1, <<>>, TRUE)

\* GotoBottom aiming at the window that ends with the last line.
GotoBottomLastLine(m) ==
    LET m1 == [m EXCEPT !.YOffset = max(Len(m.lines) - m.Height, 0)]
        top == m1.YOffset
        bottom == max(Len(m1.lines) - 1, 0)
    IN IF Len(m1.lines) > 0
       THEN Result(m1, Slice(m1.lines, top, bottom), SliceOk(m1.lines, top, bottom))
       ELSE Result(m1, <<>>, TRUE)

GotoBottom(m) ==
    LET m1 == [m EXCEPT !.YOffset = max(Len(m.lines) - 1 - m.Height, 0)]
        top == m1.YOffset
        bottom == max(Len(m1.lines) - 1, 0)
    IN IF Len(m1.lines) > 0
       THEN Result(m1, Slice(m1.lines, top, bottom), SliceOk(m1.lines, top, bottom))
       ELSE Result(m1, <<>>, TRUE)

\* ------------------------------------------------------ content mutation
\* SetContent that replaces the lines and leaves the offset alone.
SetContentNoSnap(m, s) ==
    Result([m EXCEPT !.lines = Split(Replace(s))], <<>>, TRUE)

\* SetContent that jumps to the bottom on every call.
SetContentAlwaysBottom(m, s) ==
    LET r == GotoBottom([m EXCEPT !.lines = Split(Replace(s))])
    IN Result(r.m, <<>>, r.ok)

SetContent(m, s) ==
    LET m1 == [m EXCEPT !.lines = Split(Replace(s))]
    IN IF m1.YOffset > Len(m1.lines) - 1
       THEN LET r == GotoBottom(m1) IN Result(r.m, <<>>, r.ok)
       ELSE Result(m1, <<>>, TRUE)

\* ------------------------------------------------------------- commands
\* Sync: nil without content, else the lines handed to tea.SyncScrollArea.
Sync(m) ==
    IF Len(m.lines) = 0 THEN Result(m, <<>>, TRUE)
    ELSE LET top == max(m.YOffset, 0)
             bottom == clamp(m.YOffset + m.Height, 0, Len(m.lines) - 1)
         IN Result(m, Slice(m.lines, top, bottom), SliceOk(m.lines, top, bottom))

\* ------------------------------------------------------------------ VIEW
\* View: the rendered string in ret.
View(m) ==
    IF m.HighPerformanceRendering
    THEN IF m.Height - 1 >= 0
         THEN Result(m, Repeat(m.Height - 1), TRUE)
         ELSE Result(m, <<>>, FALSE)
    ELSE LET v == visibleLines(m)
             extraLines == IF Len(v.ret) < m.Height
                           THEN Repeat(m.Height - Len(v.ret)) ELSE <<>>
         IN IF v.ok THEN Result(m, Join(v.ret) \o extraLines, TRUE)
            ELSE Result(m, <<>>, FALSE)

\* ----------------------------------------------------- scroll commands
\* A tea.Cmd: nil, or the scroll request handed to the host.
NoCmd == [kind |-> "nil", lines |-> <<>>, top |-> 0, bottom |-> 0]

\* The command ViewDown without its test for an empty diff.
ViewDownCmdNoCheck(m, lines) ==
    [kind |-> "ScrollDown", lines |-> lines,
     top |-> m.YPosition, bottom |-> m.YPosition + m.Height]

\* The command ViewDown(m, lines).
ViewDownCmd(m, lines) ==
    IF Len(lines) = 0 THEN NoCmd
    ELSE [kind |-> "ScrollDown", lines |-> lines,
          top |-> m.YPosition, bottom |-> m.YPosition + m.Height]

\* The command ViewUp(m, lines).
ViewUpCmd(m, lines) ==
    IF Len(lines) = 0 THEN NoCmd
    ELSE [kind |-> "ScrollUp", lines |-> lines,
          top |-> m.YPosition, bottom |-> m.YPosition + m.Height]

\* ---------------------------------------------------------------- UPDATE
\* A tea.Msg: a key press (its String()), a mouse event (its Type), or any
\* other message.
NoMsg == [type |-> "none", name |-> ""]

KeyMsgs ==
    {[type |-> "KeyMsg", name |-> k] :
        k \in {"pgdown", spacebar, "f", "pgup", "b", "d", "ctrl+d", "u", "ctrl+u",
               "down", "j", "up", "k", "q"}}

MouseMsgs ==
    {[type |-> "MouseMsg", name |-> t] :
        t \in {"MouseWheelUp", "MouseWheelDown", "MouseLeft"}}

Msgs == KeyMsgs \cup MouseMsgs \cup {[type |-> "WindowSizeMsg", name |-> ""]}

\* What Update returns: the model, the command, and (for the record) the diff
\* of the navigation method it called.
Updated(r, cmd) == [m |-> r.m, ret |-> r.ret, ok |-> r.ok, cmd |-> cmd]

\* The branch of Update that scrolls down by r.
Down(r) ==
    Updated(r, IF r.ok /\ r.m.HighPerformanceRendering
               THEN ViewDownCmd(r.m, r.ret) ELSE NoCmd)

\* The branch of Update that scrolls up by r.
Up(r) ==
    Updated(r, IF r.ok /\ r.m.HighPerformanceRendering
               THEN ViewUpCmd(r.m, r.ret) ELSE NoCmd)

Update(m, msg) ==
    IF msg.type = "KeyMsg"
    THEN CASE msg.name \in {"pgdown", spacebar, "f"} -> Down(ViewDown(m))
           [] msg.name \in {"pgup", "b"} -> Up(ViewUp(m))
           [] msg.name \in {"d", "ctrl+d"} -> Down(HalfViewDown(m))
           [] msg.name \in {"u", "ctrl+u"} -> Up(HalfViewUp(m))
           [] msg.name \in {"down", "j"} -> Down(LineDown(m, 1))
           [] msg.name \in {"up", "k"} -> Up(LineUp(m, 1))
           [] OTHER -> Updated(Result(m, <<>>, TRUE), NoCmd)
    ELSE IF msg.type = "MouseMsg"
    THEN CASE msg.name = "MouseWheelUp" -> Up(LineUp(m, mouseWheelDelta))
           [] msg.name = "MouseWheelDown" -> Down(LineDown(m, mouseWheelDelta))
           [] OTHER -> Updated(Result(m, <<>>, TRUE), NoCmd)
    ELSE Updated(Result(m, <<>>, TRUE), NoCmd)

\* ----------------------------------------------------------------- state
VARIABLES
    m,         \* the ViewportModel value the program holds
    op,        \* the last call made on it
    arg,       \* that call's n (0 when it takes none)
    pre,       \* YOffset before that call
    ret,       \* the slice that call returned (nil and empty are both <<>>)
    out,       \* the string the last call returned, when it was View
    panicked,  \* a call ended in a run-time panic: the program is gone
    trip,      \* the two-call sequence the last call completed, if any
    msg,       \* the message the last call handled, when it was Update
    cmd        \* the command the last call returned, when it was Update

vars == <<m, op, arg, pre, ret, out, panicked, trip, msg, cmd>>

NoTrip == [seq |-> "none", y0 |-> 0, free |-> FALSE]

Init ==
    /\ m = New
    /\ op = "New"
    /\ arg = 0
    /\ pre = 0
    /\ ret = <<>>
    /\ out = <<>>
    /\ panicked = FALSE
    /\ trip = NoTrip
    /\ msg = NoMsg
    /\ cmd = NoCmd

\* The call `name` with argument n yields r.
Call(name, n, r, t) ==
    /\ ~panicked
    /\ r.m.YOffset \in (0 - MaxOffset)..MaxOffset
    /\ m' = r.m
    /\ op' = name
    /\ arg' = n
    /\ pre' = m.YOffset
    /\ ret' = r.ret
    /\ panicked' = ~r.ok
    /\ trip' = t
    /\ out' = <<>>
    /\ msg' = NoMsg
    /\ cmd' = NoCmd

\* The host resizes the viewport.
Resize(w, h) ==
    Call("Resize", 0, Result([m EXCEPT !.Width = w, !.Height = h], <<>>, TRUE), NoTrip)

\* The host places the viewport and picks the rendering mode.
Place(y, hpr) ==
    Call("Place", 0,
         Result([m EXCEPT !.YPosition = y, !.HighPerformanceRendering = hpr],
                <<>>, TRUE), NoTrip)

DoSetContent(s) == Call("SetContent", 0, SetContent(m, s), NoTrip)

DoViewDown == Call("ViewDown", 0, ViewDown(m), NoTrip)

DoViewUp == Call("ViewUp", 0, ViewUp(m), NoTrip)

DoHalfViewDown == Call("HalfViewDown", 0, HalfViewDown(m), NoTrip)

DoHalfViewUp == Call("HalfViewUp", 0, HalfViewUp(m), NoTrip)

DoLineDown(n) == Call("LineDown", n, LineDown(m, n), NoTrip)

DoLineUp(n) ==
    Call("LineUp", n, LineUp(m, n),
         IF op = "LineDown" /\ arg = n /\ n > 0
         THEN [seq |-> "LineDownLineUp", y0 |-> pre,
               free |-> (n <= Len(m.lines) - 1 - (pre + m.Height))]
         ELSE NoTrip)

DoGotoTop ==
    Call("GotoTop", 0, GotoTop(m),
         IF op = "GotoBottom"
         THEN [seq |-> "GotoBottomGotoTop", y0 |-> pre, free |-> TRUE]
         ELSE NoTrip)

DoGotoBottom ==
    Call("GotoBottom", 0, GotoBottom(m),
         IF op = "GotoTop"
         THEN [seq |-> "GotoTopGotoBottom", y0 |-> pre, free |-> TRUE]
         ELSE NoTrip)

DoVisibleLines == Call("visibleLines", 0, visibleLines(m), NoTrip)

DoSync == Call("Sync", 0, Sync(m), NoTrip)

DoView ==
    /\ ~panicked
    /\ LET r == View(m)
       IN /\ out' = r.ret
          /\ panicked' = ~r.ok
    /\ op' = "View"
    /\ arg' = 0
    /\ pre' = m.YOffset
    /\ ret' = <<>>
    /\ trip' = NoTrip
    /\ msg' = NoMsg
    /\ cmd' = NoCmd
    /\ UNCHANGED m

\* The host hands a message to Update and keeps the model it returns.
DoUpdate(e) ==
    /\ ~panicked
    /\ LET r == Update(m, e)
       IN /\ r.m.YOffset \in (0 - MaxOffset)..MaxOffset
          /\ m' = r.m
          /\ ret' = r.ret
          /\ cmd' = r.cmd
          /\ panicked' = ~r.ok
    /\ op' = "Update"
    /\ msg' = e
    /\ arg' = 0
    /\ pre' = m.YOffset
    /\ out' = <<>>
    /\ trip' = NoTrip

\* ------------------------------------------------------- specifications
Heights == (0 - MaxNeg)..MaxHeight
Counts == (0 - MaxNeg)..MaxN
NatHeights == 0..MaxHeight
NatCounts == 0..MaxN

\* Any integer Height and n.
NextAny ==
    \/ \E w \in 0..MaxWidth, h \in Heights : Resize(w, h)
    \/ \E y \in 0..MaxYPosition, hpr \in BOOLEAN : Place(y, hpr)
    \/ \E s \in Texts : DoSetContent(s)
    \/ DoViewDown
    \/ DoViewUp
    \/ DoHalfViewDown
    \/ DoHalfViewUp
    \/ \E n \in Counts : DoLineDown(n)
    \/ \E n \in Counts : DoLineUp(n)
    \/ DoGotoTop
    \/ DoGotoBottom
    \/ DoVisibleLines
    \/ DoSync
    \/ DoView

SpecAny == Init /\ [][NextAny]_vars

\* Height >= 0 and n >= 0 only, in the standard rendering mode the zero value
\* starts in: the host changes the height and nothing else.
Next ==
    \/ \E h \in NatHeights : Resize(m.Width, h)
    \/ \E s \in Texts : DoSetContent(s)
    \/ DoViewDown
    \/ DoViewUp
    \/ DoHalfViewDown
    \/ DoHalfViewUp
    \/ \E n \in NatCounts : DoLineDown(n)
    \/ \E n \in NatCounts : DoLineUp(n)
    \/ DoGotoTop
    \/ DoGotoBottom
    \/ DoVisibleLines
    \/ DoSync
    \/ DoView

Spec == Init /\ [][Next]_vars

\* The default key and mouse bindings: the host sizes and places the viewport,
\* sets its content and hands every message to Update.
NextUpdate ==
    \/ \E h \in NatHeights : Resize(m.Width, h)
    \/ \E y \in 0..MaxYPosition, hpr \in BOOLEAN : Place(y, hpr)
    \/ \E s \in Texts : DoSetContent(s)
    \/ \E e \in Msgs : DoUpdate(e)

SpecUpdate == Init /\ [][NextUpdate]_vars

\* Paging only: a viewport of some height over some content, at the top, on
\* which the caller keeps calling ViewDown.
InitPage ==
    /\ \E h \in NatHeights, s \in Texts :
          m = SetContent([New EXCEPT !.Height = h], s).m
    /\ op = "SetContent"
    /\ arg = 0
    /\ pre = 0
    /\ ret = <<>>
    /\ out = <<>>
    /\ panicked = FALSE
    /\ trip = NoTrip
    /\ msg = NoMsg
    /\ cmd = NoCmd

NextPage == DoViewDown

SpecPage == InitPage /\ [][NextPage]_vars /\ WF_vars(DoViewDown)

\* Navigation only: a viewport of some height over some content, at the top,
\* on which the caller calls navigation methods and reads the window; Height
\* and the content never change.
NextNav ==
    \/ DoViewDown
    \/ DoViewUp
    \/ DoHalfViewDown
    \/ DoHalfViewUp
    \/ \E n \in NatCounts : DoLineDown(n)
    \/ \E n \in NatCounts : DoLineUp(n)
    \/ DoGotoTop
    \/ DoGotoBottom
    \/ DoVisibleLines

SpecNav == InitPage /\ [][NextNav]_vars

\* ------------------------------------------------------------ properties
NavOps ==
    {"ViewDown", "ViewUp", "HalfViewDown", "HalfViewUp",
     "LineDown", "LineUp", "GotoTop", "GotoBottom"}

\* The largest offset the navigation methods aim for.
Bound(v) == max(0, Len(v.lines) - 1 - v.Height)

\* C1: with Height >= 0 and n >= 0, YOffset >= 0 in every state reachable by
\* SetContent, resizes and the navigation methods.
C1_OffsetNonNegative == m.YOffset >= 0

\* A ViewUp whose target YOffset - Height was negative and fell back to 0.
C1_Witness ==
    /\ op = "ViewUp"
    /\ pre > 0
    /\ pre - m.Height < 0
    /\ m.YOffset = 0

\* C2 as stated: right after any navigation call YOffset <= max(0, len(lines)-1-Height),
\* also when the call was made in a past-bottom state.
C2_ReclampedAfterNavigation ==
    (op \in NavOps /\ ~panicked) => m.YOffset <= Bound(m)

\* C2 amended: right after a navigation call YOffset <= max(0, len(lines)-1-Height)
\* when that held before the call, and after ViewUp, GotoTop and GotoBottom
\* whatever the offset was before.
C2_NavigationKeepsBound ==
    (op \in NavOps /\ ~panicked) =>
        ((pre <= Bound(m) \/ op \in {"ViewUp", "GotoTop", "GotoBottom"})
            => m.YOffset <= Bound(m))

\* A ViewUp called past the bottom that brought the offset back under the bound.
C2_Witness ==
    /\ op = "ViewUp"
    /\ pre > Bound(m)
    /\ m.YOffset > 0
    /\ m.YOffset <= Bound(m)

\* C3: ViewUp, HalfViewUp, LineUp and GotoTop called at the top, and ViewDown,
\* HalfViewDown and LineDown called at the bottom, return nothing and change no field.
C3_BoundaryNoOp ==
    [][((op' \in {"ViewUp", "HalfViewUp", "LineUp", "GotoTop"} /\ AtTop(m))
        \/ (op' \in {"ViewDown", "HalfViewDown", "LineDown"} /\ AtBottom(m)))
       => (ret' = <<>> /\ m' = m /\ ~panicked')]_vars

\* A ViewDown called exactly at the bottom of content longer than the viewport.
C3_Witness ==
    /\ op = "ViewDown"
    /\ m.Height > 0
    /\ m.YOffset = Len(m.lines) - 1 - m.Height
    /\ pre = m.YOffset
    /\ ret = <<>>

\* C4: GotoTop then GotoBottom ends with YOffset = max(len(lines)-1-Height, 0),
\* and GotoBottom then GotoTop ends with YOffset = 0.
C4_GotoTopBottom ==
    /\ trip.seq = "GotoTopGotoBottom"
         => m.YOffset = max(Len(m.lines) - 1 - m.Height, 0)
    /\ trip.seq = "GotoBottomGotoTop" => m.YOffset = 0

\* GotoTop from a scrolled position, then GotoBottom to a positive offset.
C4_Witness ==
    /\ trip.seq = "GotoTopGotoBottom"
    /\ trip.y0 > 0
    /\ m.YOffset > 0

\* C5: for n > 0 with n <= len(lines)-1-(YOffset+Height), LineDown(n) followed by
\* LineUp(n) restores YOffset.
C5_LineDownLineUp ==
    (trip.seq = "LineDownLineUp" /\ trip.free) => m.YOffset = trip.y0

\* A LineDown(n), n > 1, that moved freely, followed by LineUp(n).
C5_Witness ==
    /\ trip.seq = "LineDownLineUp"
    /\ trip.free
    /\ arg > 1
    /\ pre = trip.y0 + arg
    /\ ~panicked

\* C6: SetContent with text of no more lines than the current YOffset leaves the
\* viewport at the bottom, with YOffset = max(len(lines)-1-Height, 0).
C6_SetContentSnaps ==
    (op = "SetContent" /\ pre > Len(m.lines) - 1)
        => (AtBottom(m) /\ m.YOffset = max(Len(m.lines) - 1 - m.Height, 0))

\* A SetContent that shrank the content under the offset and snapped to a
\* positive bottom offset.
C6_Witness ==
    /\ op = "SetContent"
    /\ pre > Len(m.lines) - 1
    /\ m.YOffset > 0
    /\ ~panicked

\* Content longer than the viewport by more than the line ViewDown never shows.
PagePre == m.Height >= 1 /\ Len(m.lines) - 1 - m.Height > 0

\* C7: from YOffset 0 with Height >= 1 and len(lines)-1-Height > 0, under ViewDown
\* alone: a call away from the bottom raises YOffset, the bottom is reached with
\* YOffset = len(lines)-1-Height, and every later call returns nothing and stays there.
C7_ViewDownReachesBottom ==
    /\ [][(PagePre /\ ~AtBottom(m)) => m'.YOffset > m.YOffset]_vars
    /\ PagePre ~> (AtBottom(m) /\ m.YOffset = Len(m.lines) - 1 - m.Height)
    /\ [][(PagePre /\ AtBottom(m))
            => (ret' = <<>> /\ m'.YOffset = Len(m.lines) - 1 - m.Height)]_vars

\* A ViewDown at the bottom, after more than one page was needed to get there.
C7_Witness ==
    /\ PagePre
    /\ op = "ViewDown"
    /\ ret = <<>>
    /\ pre = m.YOffset
    /\ m.YOffset = Len(m.lines) - 1 - m.Height
    /\ m.YOffset > m.Height

\* C8: ScrollPercent is a number in [0, 1] in every reachable state: 1 when
\* Height >= len(lines), else the divisor len(lines)-1-Height is not zero and the
\* result is YOffset over it, clamped.
C8_ScrollPercentInRange ==
    LET p == ScrollPercent(m)
    IN /\ ~p.nan
       /\ 0 <= p.num /\ p.num <= p.den
       /\ m.Height >= Len(m.lines) => p = Frac(1, 1)
       /\ m.Height < Len(m.lines) => Len(m.lines) - 1 - m.Height # 0

\* C9: with L >= 1 lines, Height >= L and YOffset = 0 the viewport is at the
\* bottom, visibleLines is all L lines, and the standard View is the lines joined
\* by newlines followed by Height-L newlines.
C9_ShortContentFits ==
    (Len(m.lines) >= 1 /\ m.Height >= Len(m.lines) /\ m.YOffset = 0) =>
        /\ AtBottom(m)
        /\ visibleLines(m).ok
        /\ visibleLines(m).ret = m.lines
        /\ ~m.HighPerformanceRendering =>
              /\ View(m).ok
              /\ View(m).ret = Join(m.lines) \o Repeat(m.Height - Len(m.lines))
        /\ (op = "View" /\ ~m.HighPerformanceRendering) =>
              /\ ~panicked
              /\ out = Join(m.lines) \o [i \in 1..(m.Height - Len(m.lines)) |-> LF]

\* A standard View of two lines or more in a taller viewport.
C9_Witness ==
    /\ op = "View"
    /\ ~m.HighPerformanceRendering
    /\ Len(m.lines) >= 2
    /\ m.Height > Len(m.lines)
    /\ m.YOffset = 0
    /\ Len(out) > Len(m.lines)
    /\ ~panicked

\* C10: no call ends in a run-time failure, for any content, any integer Height
\* and any integer n.
C10_NoRuntimeFailure == ~panicked

\* C11: HalfViewDown and HalfViewUp called away from their boundary, Height >= 1,
\* return exactly the lines that newly entered the window: lines[old+Height :
\* new+Height] going down, lines[new : old] going up.
C11_HalfViewDiffIsNewLines ==
    /\ (op = "HalfViewDown" /\ m.Height >= 1
            /\ pre < Len(m.lines) - 1 - m.Height)
         => (~panicked
             /\ ret = Slice(m.lines, pre + m.Height, m.YOffset + m.Height))
    /\ (op = "HalfViewUp" /\ m.Height >= 1 /\ pre > 0)
         => (~panicked /\ ret = Slice(m.lines, m.YOffset, pre))

\* C12: for n > 0 and Height >= 0, LineDown(n) away from the bottom moves by
\* min(n, len(lines)-1-(YOffset+Height)) and returns lines[old+Height :
\* old+Height+move]; LineUp(n) away from the top with YOffset <= len(lines)-1 moves
\* by min(n, YOffset) and returns lines[new : old]; the diff has as many lines as
\* the offset moved.
C12_LineDiffMatchesMove ==
    /\ (op = "LineDown" /\ arg > 0 /\ m.Height >= 0
            /\ pre < Len(m.lines) - 1 - m.Height)
         => LET move == min(arg, Len(m.lines) - 1 - (pre + m.Height))
            IN /\ ~panicked
               /\ m.YOffset = pre + move
               /\ Len(ret) = move
               /\ ret = Slice(m.lines, pre + m.Height, pre + m.Height + move)
    /\ (op = "LineUp" /\ arg > 0 /\ m.Height >= 0
            /\ pre > 0 /\ pre <= Len(m.lines) - 1)
         => LET move == min(arg, pre)
            IN /\ ~panicked
               /\ m.YOffset = pre - move
               /\ Len(ret) = move
               /\ ret = Slice(m.lines, m.YOffset, pre)

\* A LineDown(n) that the distance to the bottom cut short, with lines to show.
C12_Witness ==
    /\ op = "LineDown"
    /\ arg > 1
    /\ pre < Len(m.lines) - 1 - m.Height
    /\ arg > Len(m.lines) - 1 - (pre + m.Height)
    /\ m.Height >= 1
    /\ Len(ret) >= 1
    /\ Len(ret) < arg

\* C13: with content, the lines Sync hands to the host are the visible window,
\* the sequence visibleLines returns in that state.
C13_SyncIsVisibleLines ==
    (op = "Sync" /\ Len(m.lines) > 0 /\ ~panicked)
        => ret = visibleLines(m).ret

\* The receiver after SetContent("") in the current state.
AfterEmpty == SetContent(m, <<>>).m

\* C14 as stated: after SetContent("") there are no lines and visibleLines
\* returns nothing, whatever the Height.
C14_EmptyIsZeroLines ==
    (op = "SetContent" /\ m.lines = AfterEmpty.lines)
        => (Len(m.lines) = 0 /\ visibleLines(m).ret = <<>>)

\* C14 amended: after SetContent("") there is one line, the empty string, and
\* YOffset is 0; visibleLines returns that line when Height >= 1 and nothing when
\* Height = 0.  There are no lines only before the first SetContent.
C14_EmptyIsOneLine ==
    /\ AfterEmpty.lines = <<<<>>>>
    /\ AfterEmpty.YOffset = 0
    /\ visibleLines(AfterEmpty).ret = IF m.Height >= 1 THEN <<<<>>>> ELSE <<>>
    /\ (op = "SetContent" /\ m.lines = AfterEmpty.lines)
         => (m.YOffset = 0 /\ Len(m.lines) = 1)
    /\ op = "SetContent" => Len(m.lines) >= 1
    /\ Len(m.lines) = 0 => visibleLines(m).ret = <<>>

\* SetContent("") called on a scrolled viewport of Height >= 1.
C14_Witness ==
    /\ op = "SetContent"
    /\ m.lines = <<<<>>>>
    /\ pre > 0
    /\ m.Height >= 1
    /\ visibleLines(m).ret = <<<<>>>>

\* C15: a navigation call changes no field but YOffset; visibleLines, Sync and
\* View change no field; SetContent changes only lines and, when the offset is
\* beyond the new last line, YOffset.
C15_Frame ==
    [][/\ op' \in NavOps => m' = [m EXCEPT !.YOffset = m'.YOffset]
       /\ op' \in {"visibleLines", "Sync", "View"} => m' = m
       /\ op' = "SetContent" =>
             /\ m' = [m EXCEPT !.lines = m'.lines, !.YOffset = m'.YOffset]
             /\ m.YOffset <= Len(m'.lines) - 1 => m'.YOffset = m.YOffset]_vars

\* A SetContent that snapped the offset of a placed, accelerated viewport.
C15_Witness ==
    /\ op = "SetContent"
    /\ pre > m.YOffset
    /\ m.Width = 1
    /\ m.YPosition = 1
    /\ m.HighPerformanceRendering
    /\ m.Height >= 1

\* The same engine at another window position and in another rendering mode.
Sibling(y, b) == [m EXCEPT !.YPosition = y, !.HighPerformanceRendering = b]

\* A call on the sibling returns what it returns here and leaves the sibling a
\* sibling.
SameBut(r, r2, y, b) ==
    /\ r2.ret = r.ret
    /\ r2.ok = r.ok
    /\ r2.m = [r.m EXCEPT !.YPosition = y, !.HighPerformanceRendering = b]

\* C16: engines that differ only in YPosition and HighPerformanceRendering, given
\* the same SetContent, resize or navigation call, return the same diff and end
\* with the same YOffset, and still differ only in those two fields.
C16_PositionNonInterference ==
    \A y \in 0..MaxYPosition, b \in BOOLEAN :
        LET m2 == Sibling(y, b)
        IN /\ SameBut(ViewDown(m), ViewDown(m2), y, b)
           /\ SameBut(ViewUp(m), ViewUp(m2), y, b)
           /\ SameBut(HalfViewDown(m), HalfViewDown(m2), y, b)
           /\ SameBut(HalfViewUp(m), HalfViewUp(m2), y, b)
           /\ SameBut(GotoTop(m), GotoTop(m2), y, b)
           /\ SameBut(GotoBottom(m), GotoBottom(m2), y, b)
           /\ \A n \in NatCounts :
                 /\ SameBut(LineDown(m, n), LineDown(m2, n), y, b)
                 /\ SameBut(LineUp(m, n), LineUp(m2, n), y, b)
           /\ \A s \in Texts : SameBut(SetContent(m, s), SetContent(m2, s), y, b)
           /\ \A h \in NatHeights :
                 [m2 EXCEPT !.Height = h] =
                     [[m EXCEPT !.Height = h]
                         EXCEPT !.YPosition = y, !.HighPerformanceRendering = b]

\* After a navigation call that moved the viewport: a further ViewDown moves a
\* placed, accelerated sibling and returns lines to it.
C16_Witness ==
    /\ op \in NavOps
    /\ pre # m.YOffset
    /\ \E y \in 1..MaxYPosition :
          LET r2 == ViewDown(Sibling(y, TRUE))
          IN r2.ret # <<>> /\ r2.m.YOffset > m.YOffset

\* The navigation call an event stands for under the default bindings: a page
\* per page key, half a page per half-page key, one line per arrow key and
\* mouseWheelDelta lines per wheel tick; no call for any other event.
Mapped(v, e) ==
    CASE e.type = "KeyMsg" /\ e.name \in {"pgdown", spacebar, "f"} -> ViewDown(v)
      [] e.type = "KeyMsg" /\ e.name \in {"pgup", "b"} -> ViewUp(v)
      [] e.type = "KeyMsg" /\ e.name \in {"d", "ctrl+d"} -> HalfViewDown(v)
      [] e.type = "KeyMsg" /\ e.name \in {"u", "ctrl+u"} -> HalfViewUp(v)
      [] e.type = "KeyMsg" /\ e.name \in {"down", "j"} -> LineDown(v, 1)
      [] e.type = "KeyMsg" /\ e.name \in {"up", "k"} -> LineUp(v, 1)
      [] e.type = "MouseMsg" /\ e.name = "MouseWheelDown" -> LineDown(v, 3)
      [] e.type = "MouseMsg" /\ e.name = "MouseWheelUp" -> LineUp(v, 3)
      [] OTHER -> Result(v, <<>>, TRUE)

GoesDown(e) ==
    \/ e.type = "KeyMsg" /\ e.name \in {"pgdown", spacebar, "f", "d", "ctrl+d", "down", "j"}
    \/ e.type = "MouseMsg" /\ e.name = "MouseWheelDown"

\* C17: Update returns a command exactly when HighPerformanceRendering is on
\* and the navigation call the event maps to returned a non-empty diff; the
\* command is a scroll-down for a downward call and a scroll-up for an upward
\* one, it carries that diff, and its bounds are YPosition and
\* YPosition + Height.  Whatever the mode, the model Update returns is the one
\* the mapped call leaves.
C17_UpdateCommand ==
    op = "Update" =>
        LET r == Mapped([m EXCEPT !.YOffset = pre], msg)
        IN /\ ~panicked
           /\ m = r.m
           /\ ret = r.ret
           /\ (cmd # NoCmd) <=> (m.HighPerformanceRendering /\ r.ret # <<>>)
           /\ cmd # NoCmd =>
                 cmd = [kind |-> IF GoesDown(msg) THEN "ScrollDown" ELSE "ScrollUp",
                        lines |-> r.ret,
                        top |-> m.YPosition,
                        bottom |-> m.YPosition + m.Height]

\* A wheel tick down in high performance mode that scrolled three lines and
\* asked the host to scroll them in, on a viewport placed below the top row.
C17_Witness ==
    /\ op = "Update"
    /\ msg = [type |-> "MouseMsg", name |-> "MouseWheelDown"]
    /\ m.HighPerformanceRendering
    /\ m.YPosition = 1
    /\ m.YOffset = pre + 3
    /\ cmd.kind = "ScrollDown"
    /\ Len(cmd.lines) >= 1
    /\ cmd.top = 1
    /\ cmd.bottom = 1 + m.Height

\* C18: once SetContent has been called (lines is non-empty from then on),
\* YOffset <= len(lines)-1 in every state reached by SetContent, changes of
\* Height to values >= 0 and navigation with n >= 0; so visibleLines() is
\* non-empty whenever Height >= 1.
C18_OffsetWithinContent ==
    Len(m.lines) > 0 =>
        /\ m.YOffset <= Len(m.lines) - 1
        /\ m.Height >= 1 => (visibleLines(m).ok /\ visibleLines(m).ret # <<>>)

\* After SetContent and a scroll to the bottom under Height 0, the window was
\* made taller: the offset sits on the last line, past the bound of C2, and
\* the window still shows that line.
C18_Witness ==
    /\ Len(m.lines) > 1
    /\ m.Height >= 1
    /\ m.YOffset = Len(m.lines) - 1
    /\ m.YOffset > Bound(m)
    /\ visibleLines(m).ret = <<m.lines[Len(m.lines)]>>

\* C19: with a fixed Height H >= 1 and fixed content of L > H lines, from
\* YOffset 0 and under navigation alone, visibleLines() is the H lines
\* lines[YOffset : YOffset+H] with YOffset+H <= L-1, so the last line
\* lines[L-1] is never in the window; after GotoBottom, and after a ViewDown
\* that could not move, the window is lines[L-1-H : L-1].
C19_LastLineNeverVisible ==
    LET H == m.Height
        L == Len(m.lines)
        w == visibleLines(m)
    IN (H >= 1 /\ L > H) =>
          /\ w.ok
          /\ Len(w.ret) = H
          /\ m.YOffset >= 0
          /\ m.YOffset + H <= L - 1
          /\ w.ret = Slice(m.lines, m.YOffset, m.YOffset + H)
          /\ (op = "GotoBottom" \/ (op = "ViewDown" /\ m.YOffset = pre)) =>
                /\ m.YOffset = L - 1 - H
                /\ w.ret = Slice(m.lines, L - 1 - H, L - 1)

\* GotoBottom moved a two-line window down over content whose last line
\* differs from every line of the window.
C19_Witness ==
    /\ op = "GotoBottom"
    /\ m.Height = 2
    /\ Len(m.lines) > 3
    /\ pre < m.YOffset
    /\ Len(visibleLines(m).ret) = 2
    /\ \A i \in 1..2 : visibleLines(m).ret[i] # m.lines[Len(m.lines)]

DownOps == {"ViewDown", "HalfViewDown", "LineDown"}

UpOps == {"ViewUp", "HalfViewUp", "LineUp", "GotoTop"}

\* C20 as stated: ViewDown, HalfViewDown and LineDown(n) never decrease
\* YOffset, ViewUp, HalfViewUp, LineUp(n) and GotoTop never increase it, and
\* from a past-bottom value (YOffset > len(lines)-1-Height) no navigation
\* method but GotoBottom lowers YOffset.
C20_OnlyGotoBottomLowers ==
    /\ op \in DownOps => m.YOffset >= pre
    /\ op \in UpOps => m.YOffset <= pre
    /\ (op \in NavOps \ {"GotoBottom"} /\ pre > Len(m.lines) - 1 - m.Height)
          => m.YOffset >= pre

\* C20 amended: the downward methods never decrease YOffset and the upward
\* ones never increase it; GotoBottom lowers YOffset only from a past-bottom
\* value, and SetContent only from a value beyond the last line of the new
\* content, which is past-bottom too.
C20_DirectionMonotone ==
    /\ op \in DownOps => m.YOffset >= pre
    /\ op \in UpOps => m.YOffset <= pre
    /\ (op = "GotoBottom" /\ m.YOffset < pre) => pre > Len(m.lines) - 1 - m.Height
    /\ (op = "SetContent" /\ m.YOffset < pre) =>
          (pre > Len(m.lines) - 1 /\ pre > Len(m.lines) - 1 - m.Height)

\* ViewDown was called on a past-bottom viewport that has lines below its
\* offset, and left the offset alone.
C20_Witness ==
    /\ op = "ViewDown"
    /\ pre > Len(m.lines) - 1 - m.Height
    /\ pre < Len(m.lines) - 1
    /\ m.Height >= 1
    /\ m.YOffset = pre

====
